---- MODULE Spec2Model ----
(***************************************************************************)
(* Model of the rancher-cac resource adapters (src/prtb.rs, src/rt.rs):    *)
(* the fallible conversions between the wire and the domain form of a      *)
(* ProjectRoleTemplateBinding and of a RoleTemplate, the cross-type        *)
(* equality of the two forms, and the list-query entry points with their   *)
(* status-driven classification of the transport result.                   *)
(***************************************************************************)
EXTENDS Integers, Sequences, FiniteSets, TLC

VARIABLES
    rk,       \* the resource kind the current wire/domain pair belongs to
    wire,     \* a wire resource (IoCattleManagementv3...)
    dom,      \* a domain resource (ProjectRoleTemplateBinding / RoleTemplate)
    edited,   \* the fields of wire/dom set since the start
    out,      \* the last conversion or comparison run on wire/dom, with its result
    calls,    \* the list-query calls: position, entry point, outcome
    network,  \* per call: the transport result in flight, if any
    sent,     \* per call: the transport requests issued by its current invocation
    invoked   \* how many invocations the caller has made

convVars == <<rk, wire, dom, edited, out>>
queryVars == <<calls, network, sent, invoked>>
vars == <<rk, wire, dom, edited, out, calls, network, sent, invoked>>

(***************************************************************************)
(* Bounds of the model.                                                    *)
(***************************************************************************)
\* how many fields of the wire/domain pair may differ from the starting values
MaxEdits == 2
\* how many list-query calls may be in flight at once
NumCalls == 2
\* how many invocations the caller makes in all
MaxInvocations == 2

(***************************************************************************)
(* Rust's Option and Result.                                               *)
(***************************************************************************)
None == <<>>
Some(x) == <<x>>
IsSome(o) == Len(o) = 1
Ok(v) == [tag |-> "Ok", val |-> v]
Err(e) == [tag |-> "Err", err |-> e]
IsOk(r) == r.tag = "Ok"
IsErr(r) == r.tag = "Err"

\* Option::unwrap_or_default on an Option<String>
unwrap_or_default(o) == IF IsSome(o) THEN o[1] ELSE ""

\* A HashMap<String, String> is the set of its (key, value) entries; into_iter
\* yields the entries one by one and collect inserts each into a fresh map.
into_iter(m) == m

RECURSIVE collect(_)
collect(entries) ==
    IF entries = {} THEN {}
    ELSE LET e == CHOOSE x \in entries : TRUE
             rest == collect(entries \ {e})
         IN {p \in rest : p[1] # e[1]} \cup {e}

PRTB == "ProjectRoleTemplateBinding"
RT == "RoleTemplate"
Kinds == {PRTB, RT}
API_VERSION == "management.cattle.io/v3"

(***************************************************************************)
(* The generic metadata block.  ObjectMeta_default is the value            *)
(* `..Default::default()` fills in: every field unset.                     *)
(***************************************************************************)
ObjectMeta_default ==
    [annotations |-> None, creation_timestamp |-> None, finalizers |-> None,
     generate_name |-> None, generation |-> None, labels |-> None,
     managed_fields |-> None, name |-> None, namespace |-> None,
     resource_version |-> None, self_link |-> None, uid |-> None]

sample_metadata(name) == [ObjectMeta_default EXCEPT !.name = Some(name)]

(***************************************************************************)
(* ProjectRoleTemplateBinding: conversions and equality (src/prtb.rs).     *)
(***************************************************************************)
PRTB_KindFields ==
    {"group_name", "group_principal_name", "project_name", "role_template_name",
     "service_account", "user_name", "user_principal_name"}

\* Mutant: the name is defaulted like the namespace instead of being required.
ProjectRoleTemplateBinding_try_from_defaults_name(value) ==
    IF ~IsSome(value.metadata) THEN Err("missing metadata")
    ELSE LET metadata == value.metadata[1] IN
         Ok([id |-> unwrap_or_default(metadata.name),
             group_name |-> value.group_name,
             group_principal_name |-> value.group_principal_name,
             project_name |-> value.project_name,
             role_template_name |-> value.role_template_name,
             service_account |-> value.service_account,
             user_name |-> value.user_name,
             user_principal_name |-> value.user_principal_name,
             annotations |-> IF IsSome(metadata.annotations)
                             THEN Some(collect(into_iter(metadata.annotations[1])))
                             ELSE None,
             labels |-> IF IsSome(metadata.labels)
                        THEN Some(collect(into_iter(metadata.labels[1])))
                        ELSE None,
             namespace |-> unwrap_or_default(metadata.namespace),
             resource_version |-> metadata.resource_version,
             uid |-> metadata.uid])

\* Mutant: an absent namespace is defaulted to "default" instead of "".
ProjectRoleTemplateBinding_try_from_default_namespace(value) ==
    IF ~IsSome(value.metadata) THEN Err("missing metadata")
    ELSE LET metadata == value.metadata[1] IN
         IF ~IsSome(metadata.name) THEN Err("missing name")
         ELSE Ok([id |-> metadata.name[1],
                  group_name |-> value.group_name,
                  group_principal_name |-> value.group_principal_name,
                  project_name |-> value.project_name,
                  role_template_name |-> value.role_template_name,
                  service_account |-> value.service_account,
                  user_name |-> value.user_name,
                  user_principal_name |-> value.user_principal_name,
                  annotations |-> IF IsSome(metadata.annotations)
                                  THEN Some(collect(into_iter(metadata.annotations[1])))
                                  ELSE None,
                  labels |-> IF IsSome(metadata.labels)
                             THEN Some(collect(into_iter(metadata.labels[1])))
                             ELSE None,
                  namespace |-> IF IsSome(metadata.namespace)
                                THEN metadata.namespace[1] ELSE "default",
                  resource_version |-> metadata.resource_version,
                  uid |-> metadata.uid])

\* impl TryFrom<IoCattleManagementv3ProjectRoleTemplateBinding> for ProjectRoleTemplateBinding
ProjectRoleTemplateBinding_try_from(value) ==
    IF ~IsSome(value.metadata) THEN Err("missing metadata")
    ELSE LET metadata == value.metadata[1] IN
         IF ~IsSome(metadata.name) THEN Err("missing name")
         ELSE Ok([id |-> metadata.name[1],
                  group_name |-> value.group_name,
                  group_principal_name |-> value.group_principal_name,
                  project_name |-> value.project_name,
                  role_template_name |-> value.role_template_name,
                  service_account |-> value.service_account,
                  user_name |-> value.user_name,
                  user_principal_name |-> value.user_principal_name,
                  annotations |-> IF IsSome(metadata.annotations)
                                  THEN Some(collect(into_iter(metadata.annotations[1])))
                                  ELSE None,
                  labels |-> IF IsSome(metadata.labels)
                             THEN Some(collect(into_iter(metadata.labels[1])))
                             ELSE None,
                  namespace |-> unwrap_or_default(metadata.namespace),
                  resource_version |-> metadata.resource_version,
                  uid |-> metadata.uid])

\* Mutant: the namespace is not written into the metadata block.
IoCattleManagementv3ProjectRoleTemplateBinding_try_from_omits_namespace(value) ==
    LET metadata == [ObjectMeta_default EXCEPT
                        !.annotations = value.annotations,
                        !.labels = value.labels,
                        !.name = Some(value.id)]
    IN Ok([api_version |-> Some(API_VERSION),
           group_name |-> value.group_name,
           group_principal_name |-> value.group_principal_name,
           kind |-> Some(PRTB),
           metadata |-> Some(metadata),
           project_name |-> value.project_name,
           role_template_name |-> value.role_template_name,
           service_account |-> value.service_account,
           user_name |-> value.user_name,
           user_principal_name |-> value.user_principal_name])

\* impl TryFrom<ProjectRoleTemplateBinding> for IoCattleManagementv3ProjectRoleTemplateBinding
IoCattleManagementv3ProjectRoleTemplateBinding_try_from(value) ==
    LET metadata == [ObjectMeta_default EXCEPT
                        !.annotations = value.annotations,
                        !.labels = value.labels,
                        !.namespace = Some(value.namespace),
                        !.name = Some(value.id)]
    IN Ok([api_version |-> Some(API_VERSION),
           group_name |-> value.group_name,
           group_principal_name |-> value.group_principal_name,
           kind |-> Some(PRTB),
           metadata |-> Some(metadata),
           project_name |-> value.project_name,
           role_template_name |-> value.role_template_name,
           service_account |-> value.service_account,
           user_name |-> value.user_name,
           user_principal_name |-> value.user_principal_name])

\* Mutant: the field list misses user_principal_name.
IoCattleManagementv3ProjectRoleTemplateBinding_eq_misses_field(self, other) ==
    LET lhs == IF IsSome(self.metadata) THEN self.metadata[1].name ELSE None
        rhs == Some(other.id)
    IN /\ lhs = rhs
       /\ self.group_name = other.group_name
       /\ self.group_principal_name = other.group_principal_name
       /\ self.project_name = other.project_name
       /\ self.role_template_name = other.role_template_name
       /\ self.service_account = other.service_account
       /\ self.user_name = other.user_name

\* Mutant: the comparison also takes the labels and the namespace into account.
IoCattleManagementv3ProjectRoleTemplateBinding_eq_checks_metadata(self, other) ==
    LET lhs == IF IsSome(self.metadata) THEN self.metadata[1].name ELSE None
        rhs == Some(other.id)
    IN /\ lhs = rhs
       /\ self.metadata[1].labels = other.labels
       /\ self.metadata[1].namespace = Some(other.namespace)
       /\ self.group_name = other.group_name
       /\ self.group_principal_name = other.group_principal_name
       /\ self.project_name = other.project_name
       /\ self.role_template_name = other.role_template_name
       /\ self.service_account = other.service_account
       /\ self.user_name = other.user_name
       /\ self.user_principal_name = other.user_principal_name

\* impl PartialEq<ProjectRoleTemplateBinding> for IoCattleManagementv3ProjectRoleTemplateBinding
IoCattleManagementv3ProjectRoleTemplateBinding_eq(self, other) ==
    LET lhs == IF IsSome(self.metadata) THEN self.metadata[1].name ELSE None
        rhs == Some(other.id)
    IN /\ lhs = rhs
       /\ self.group_name = other.group_name
       /\ self.group_principal_name = other.group_principal_name
       /\ self.project_name = other.project_name
       /\ self.role_template_name = other.role_template_name
       /\ self.service_account = other.service_account
       /\ self.user_name = other.user_name
       /\ self.user_principal_name = other.user_principal_name

\* Mutant: the reverse direction written out by hand, its identity check left out.
ProjectRoleTemplateBinding_eq_by_hand(self, other) ==
    /\ self.group_name = other.group_name
    /\ self.group_principal_name = other.group_principal_name
    /\ self.project_name = other.project_name
    /\ self.role_template_name = other.role_template_name
    /\ self.service_account = other.service_account
    /\ self.user_name = other.user_name
    /\ self.user_principal_name = other.user_principal_name

\* impl PartialEq<IoCattleManagementv3ProjectRoleTemplateBinding> for ProjectRoleTemplateBinding
ProjectRoleTemplateBinding_eq(self, other) ==
    IoCattleManagementv3ProjectRoleTemplateBinding_eq(other, self)

(***************************************************************************)
(* RoleTemplate: conversions and equality (src/rt.rs).                     *)
(***************************************************************************)
RT_KindFields ==
    {"administrative", "builtin", "cluster_creator_default", "context",
     "description", "display_name", "external", "hidden", "locked",
     "project_creator_default", "role_template_names", "rules"}

\* Mutant: an empty name is rejected like an absent one.
RoleTemplate_try_from_rejects_empty_name(value) ==
    IF ~IsSome(value.metadata) THEN Err("missing metadata")
    ELSE LET metadata == value.metadata[1] IN
         IF ~IsSome(metadata.name) \/ metadata.name = Some("")
         THEN Err("missing metadata.name")
         ELSE Ok([administrative |-> value.administrative,
                  annotations |-> metadata.annotations,
                  builtin |-> value.builtin,
                  cluster_creator_default |-> value.cluster_creator_default,
                  context |-> value.context,
                  description |-> value.description,
                  display_name |-> value.display_name,
                  external |-> value.external,
                  hidden |-> value.hidden,
                  id |-> metadata.name[1],
                  labels |-> metadata.labels,
                  locked |-> value.locked,
                  project_creator_default |-> value.project_creator_default,
                  role_template_names |-> value.role_template_names,
                  rules |-> value.rules])

\* Mutant: the absent name is reported with the message of the absent metadata.
RoleTemplate_try_from_same_message(value) ==
    IF ~IsSome(value.metadata) THEN Err("missing metadata")
    ELSE LET metadata == value.metadata[1] IN
         IF ~IsSome(metadata.name) THEN Err("missing metadata")
         ELSE Ok([administrative |-> value.administrative,
                  annotations |-> metadata.annotations,
                  builtin |-> value.builtin,
                  cluster_creator_default |-> value.cluster_creator_default,
                  context |-> value.context,
                  description |-> value.description,
                  display_name |-> value.display_name,
                  external |-> value.external,
                  hidden |-> value.hidden,
                  id |-> metadata.name[1],
                  labels |-> metadata.labels,
                  locked |-> value.locked,
                  project_creator_default |-> value.project_creator_default,
                  role_template_names |-> value.role_template_names,
                  rules |-> value.rules])

\* impl TryFrom<IoCattleManagementv3RoleTemplate> for RoleTemplate
RoleTemplate_try_from(value) ==
    IF ~IsSome(value.metadata) THEN Err("missing metadata")
    ELSE LET metadata == value.metadata[1] IN
         IF ~IsSome(metadata.name) THEN Err("missing metadata.name")
         ELSE Ok([administrative |-> value.administrative,
                  annotations |-> metadata.annotations,
                  builtin |-> value.builtin,
                  cluster_creator_default |-> value.cluster_creator_default,
                  context |-> value.context,
                  description |-> value.description,
                  display_name |-> value.display_name,
                  external |-> value.external,
                  hidden |-> value.hidden,
                  id |-> metadata.name[1],
                  labels |-> metadata.labels,
                  locked |-> value.locked,
                  project_creator_default |-> value.project_creator_default,
                  role_template_names |-> value.role_template_names,
                  rules |-> value.rules])

\* Mutant: the labels are not copied into the metadata block.
IoCattleManagementv3RoleTemplate_try_from_drops_labels(value) ==
    LET metadata == [ObjectMeta_default EXCEPT
                        !.annotations = value.annotations,
                        !.name = Some(value.id)]
    IN Ok([administrative |-> value.administrative,
           api_version |-> Some(API_VERSION),
           builtin |-> value.builtin,
           cluster_creator_default |-> value.cluster_creator_default,
           context |-> value.context,
           description |-> value.description,
           display_name |-> value.display_name,
           external |-> value.external,
           hidden |-> value.hidden,
           kind |-> Some(RT),
           locked |-> value.locked,
           metadata |-> Some(metadata),
           project_creator_default |-> value.project_creator_default,
           role_template_names |-> value.role_template_names,
           rules |-> value.rules])

\* Mutant: the hidden flag is not copied to the wire resource.
IoCattleManagementv3RoleTemplate_try_from_unsets_hidden(value) ==
    LET metadata == [ObjectMeta_default EXCEPT
                        !.annotations = value.annotations,
                        !.labels = value.labels,
                        !.name = Some(value.id)]
    IN Ok([administrative |-> value.administrative,
           api_version |-> Some(API_VERSION),
           builtin |-> value.builtin,
           cluster_creator_default |-> value.cluster_creator_default,
           context |-> value.context,
           description |-> value.description,
           display_name |-> value.display_name,
           external |-> value.external,
           hidden |-> None,
           kind |-> Some(RT),
           locked |-> value.locked,
           metadata |-> Some(metadata),
           project_creator_default |-> value.project_creator_default,
           role_template_names |-> value.role_template_names,
           rules |-> value.rules])

\* impl TryFrom<RoleTemplate> for IoCattleManagementv3RoleTemplate
IoCattleManagementv3RoleTemplate_try_from(value) ==
    LET metadata == [ObjectMeta_default EXCEPT
                        !.annotations = value.annotations,
                        !.labels = value.labels,
                        !.name = Some(value.id)]
    IN Ok([administrative |-> value.administrative,
           api_version |-> Some(API_VERSION),
           builtin |-> value.builtin,
           cluster_creator_default |-> value.cluster_creator_default,
           context |-> value.context,
           description |-> value.description,
           display_name |-> value.display_name,
           external |-> value.external,
           hidden |-> value.hidden,
           kind |-> Some(RT),
           locked |-> value.locked,
           metadata |-> Some(metadata),
           project_creator_default |-> value.project_creator_default,
           role_template_names |-> value.role_template_names,
           rules |-> value.rules])

\* Mutant: an absent name is compared as the empty string.
IoCattleManagementv3RoleTemplate_eq_defaults_name(self, other) ==
    LET lhs == IF IsSome(self.metadata)
               THEN unwrap_or_default(self.metadata[1].name) ELSE ""
    IN /\ lhs = other.id
       /\ self.administrative = other.administrative
       /\ self.builtin = other.builtin
       /\ self.cluster_creator_default = other.cluster_creator_default
       /\ self.context = other.context
       /\ self.description = other.description
       /\ self.display_name = other.display_name
       /\ self.external = other.external
       /\ self.hidden = other.hidden
       /\ self.locked = other.locked
       /\ self.project_creator_default = other.project_creator_default
       /\ self.role_template_names = other.role_template_names
       /\ self.rules = other.rules

\* Mutant: the wire resource must also carry the kind constant.
IoCattleManagementv3RoleTemplate_eq_checks_kind(self, other) ==
    LET lhs == IF IsSome(self.metadata) THEN self.metadata[1].name ELSE None
        rhs == Some(other.id)
    IN /\ lhs = rhs
       /\ self.kind = Some(RT)
       /\ self.administrative = other.administrative
       /\ self.builtin = other.builtin
       /\ self.cluster_creator_default = other.cluster_creator_default
       /\ self.context = other.context
       /\ self.description = other.description
       /\ self.display_name = other.display_name
       /\ self.external = other.external
       /\ self.hidden = other.hidden
       /\ self.locked = other.locked
       /\ self.project_creator_default = other.project_creator_default
       /\ self.role_template_names = other.role_template_names
       /\ self.rules = other.rules

\* impl PartialEq<RoleTemplate> for IoCattleManagementv3RoleTemplate
IoCattleManagementv3RoleTemplate_eq(self, other) ==
    LET lhs == IF IsSome(self.metadata) THEN self.metadata[1].name ELSE None
        rhs == Some(other.id)
    IN /\ lhs = rhs
       /\ self.administrative = other.administrative
       /\ self.builtin = other.builtin
       /\ self.cluster_creator_default = other.cluster_creator_default
       /\ self.context = other.context
       /\ self.description = other.description
       /\ self.display_name = other.display_name
       /\ self.external = other.external
       /\ self.hidden = other.hidden
       /\ self.locked = other.locked
       /\ self.project_creator_default = other.project_creator_default
       /\ self.role_template_names = other.role_template_names
       /\ self.rules = other.rules

\* impl PartialEq<IoCattleManagementv3RoleTemplate> for RoleTemplate
RoleTemplate_eq(self, other) ==
    IoCattleManagementv3RoleTemplate_eq(other, self)

(***************************************************************************)
(* Dispatch on the resource kind.                                          *)
(***************************************************************************)
KindFields(k) == IF k = PRTB THEN PRTB_KindFields ELSE RT_KindFields

WireToDomain(k, w) ==
    IF k = PRTB THEN ProjectRoleTemplateBinding_try_from(w)
    ELSE RoleTemplate_try_from(w)

DomainToWire(k, d) ==
    IF k = PRTB THEN IoCattleManagementv3ProjectRoleTemplateBinding_try_from(d)
    ELSE IoCattleManagementv3RoleTemplate_try_from(d)

WireEqDomain(k, w, d) ==
    IF k = PRTB THEN IoCattleManagementv3ProjectRoleTemplateBinding_eq(w, d)
    ELSE IoCattleManagementv3RoleTemplate_eq(w, d)

DomainEqWire(k, d, w) ==
    IF k = PRTB THEN ProjectRoleTemplateBinding_eq(d, w)
    ELSE RoleTemplate_eq(d, w)

(***************************************************************************)
(* The values the wire/domain pair starts from: the samples of the test    *)
(* modules, and the resources that set the required fields only.           *)
(***************************************************************************)
NoEntries == {}
OneEntry == {<<"team", "ops">>}
TwoEntries == {<<"team", "ops">>, <<"tier", "web">>}

sample_binding ==
    [id |-> "binding-id",
     group_name |-> Some("group1"),
     group_principal_name |-> Some("groupPrincipal"),
     project_name |-> "project-id",
     role_template_name |-> "role-template",
     service_account |-> Some("service-account"),
     user_name |-> Some("user1"),
     user_principal_name |-> Some("userPrincipal"),
     annotations |-> Some(NoEntries),
     labels |-> Some(NoEntries),
     namespace |-> "namespace-id",
     resource_version |-> Some("resource-version"),
     uid |-> Some("uid")]

sample_iocattle_binding ==
    [api_version |-> Some(API_VERSION),
     kind |-> Some(PRTB),
     metadata |-> Some(sample_metadata("binding-id")),
     group_name |-> Some("group1"),
     group_principal_name |-> Some("groupPrincipal"),
     project_name |-> "project-id",
     role_template_name |-> "role-template",
     service_account |-> Some("service-account"),
     user_name |-> Some("user1"),
     user_principal_name |-> Some("userPrincipal")]

minimal_binding ==
    [id |-> "binding-id", group_name |-> None, group_principal_name |-> None,
     project_name |-> "project-id", role_template_name |-> "role-template",
     service_account |-> None, user_name |-> None, user_principal_name |-> None,
     annotations |-> None, labels |-> None, namespace |-> "",
     resource_version |-> None, uid |-> None]

minimal_iocattle_binding ==
    [api_version |-> None, kind |-> None,
     metadata |-> Some(sample_metadata("binding-id")),
     group_name |-> None, group_principal_name |-> None,
     project_name |-> "project-id", role_template_name |-> "role-template",
     service_account |-> None, user_name |-> None, user_principal_name |-> None]

GetPods == [api_groups |-> Some(<<"">>), resources |-> Some(<<"pods">>), verbs |-> <<"get">>]

sample_role_template ==
    [administrative |-> Some(TRUE),
     annotations |-> Some(NoEntries),
     builtin |-> Some(FALSE),
     cluster_creator_default |-> Some(TRUE),
     context |-> Some("Cluster"),
     description |-> Some("A role template"),
     display_name |-> Some("Admin"),
     external |-> Some(FALSE),
     hidden |-> Some(FALSE),
     labels |-> Some(NoEntries),
     locked |-> Some(FALSE),
     id |-> "admin-template",
     project_creator_default |-> Some(FALSE),
     role_template_names |-> Some(<<"base-template">>),
     rules |-> Some(<<>>)]

sample_iocattle_role_template ==
    [administrative |-> Some(TRUE),
     api_version |-> Some(API_VERSION),
     builtin |-> Some(FALSE),
     cluster_creator_default |-> Some(TRUE),
     context |-> Some("Cluster"),
     description |-> Some("A role template"),
     display_name |-> Some("Admin"),
     external |-> Some(FALSE),
     hidden |-> Some(FALSE),
     kind |-> Some(RT),
     locked |-> Some(FALSE),
     metadata |-> Some(sample_metadata("admin-template")),
     project_creator_default |-> Some(FALSE),
     role_template_names |-> Some(<<"base-template">>),
     rules |-> Some(<<>>)]

minimal_role_template ==
    [administrative |-> None, annotations |-> None, builtin |-> None,
     cluster_creator_default |-> None, context |-> None, description |-> None,
     display_name |-> None, external |-> None, hidden |-> None, labels |-> None,
     locked |-> None, id |-> "admin-template", project_creator_default |-> None,
     role_template_names |-> None, rules |-> None]

minimal_iocattle_role_template ==
    [administrative |-> None, api_version |-> None, builtin |-> None,
     cluster_creator_default |-> None, context |-> None, description |-> None,
     display_name |-> None, external |-> None, hidden |-> None, kind |-> None,
     locked |-> None, metadata |-> Some(sample_metadata("admin-template")),
     project_creator_default |-> None, role_template_names |-> None,
     rules |-> None]

WireBases(k) ==
    IF k = PRTB THEN <<sample_iocattle_binding, minimal_iocattle_binding>>
    ELSE <<sample_iocattle_role_template, minimal_iocattle_role_template>>

DomainBases(k) ==
    IF k = PRTB THEN <<sample_binding, minimal_binding>>
    ELSE <<sample_role_template, minimal_role_template>>

(***************************************************************************)
(* The values a field may be set to.                                       *)
(***************************************************************************)
OptBool == {None, Some(TRUE), Some(FALSE)}
OptMap == {None, Some(NoEntries), Some(OneEntry), Some(TwoEntries)}

MetaFields == DOMAIN ObjectMeta_default

MetaVals(k, f) ==
    CASE f = "name" ->
            {None, Some(""), Some("other-id"),
             Some(IF k = PRTB THEN "binding-id" ELSE "admin-template")}
      [] f = "namespace" -> {None, Some(""), Some("namespace-id")}
      [] f \in {"annotations", "labels"} -> OptMap
      [] f = "resource_version" -> {None, Some("resource-version")}
      [] f = "uid" -> {None, Some("uid")}
      [] f = "creation_timestamp" -> {None, Some("2025-01-01T00:00:00Z")}
      [] f = "finalizers" -> {None, Some(<<"controller.cattle.io/cleanup">>)}
      [] f = "generate_name" -> {None, Some("prtb-")}
      [] f = "generation" -> {None, Some(1)}
      [] f = "managed_fields" -> {None, Some(<<"rancher">>)}
      [] f = "self_link" -> {None, Some("/apis/management.cattle.io/v3")}

KindVals(k, f) ==
    CASE f = "group_name" -> {None, Some("group1"), Some("group2")}
      [] f = "group_principal_name" -> {None, Some("groupPrincipal"), Some("otherPrincipal")}
      [] f = "project_name" -> {"project-id", "other-project", ""}
      [] f = "role_template_name" -> {"role-template", "other-template", ""}
      [] f = "service_account" -> {None, Some("service-account"), Some("other-account")}
      [] f = "user_name" -> {None, Some("user1"), Some("other-user")}
      [] f = "user_principal_name" -> {None, Some("userPrincipal"), Some("otherPrincipal")}
      [] f \in {"administrative", "builtin", "cluster_creator_default", "external",
                "hidden", "locked", "project_creator_default"} -> OptBool
      [] f = "context" -> {None, Some("Cluster"), Some("Project")}
      [] f = "description" -> {None, Some("A role template"), Some("")}
      [] f = "display_name" -> {None, Some("Admin"), Some("Changed")}
      [] f = "role_template_names" ->
            {None, Some(<<>>), Some(<<"base-template">>),
             Some(<<"base-template", "other-template">>)}
      [] f = "rules" -> {None, Some(<<>>), Some(<<GetPods>>)}

WireTopFields(k) == KindFields(k) \cup {"api_version", "kind"}

WireVals(k, f) ==
    CASE f = "api_version" -> {None, Some(API_VERSION), Some("v1")}
      [] f = "kind" -> {None, Some(k), Some("Other")}
      [] OTHER -> KindVals(k, f)

DomainFields(k) ==
    KindFields(k) \cup {"id", "annotations", "labels"}
        \cup (IF k = PRTB THEN {"namespace", "resource_version", "uid"} ELSE {})

DomainVals(k, f) ==
    CASE f = "id" ->
            {"", "other-id", IF k = PRTB THEN "binding-id" ELSE "admin-template"}
      [] f = "namespace" -> {"", "namespace-id"}
      [] f \in {"annotations", "labels"} -> OptMap
      [] f = "resource_version" -> {None, Some("resource-version")}
      [] f = "uid" -> {None, Some("uid")}
      [] OTHER -> KindVals(k, f)

(***************************************************************************)
(* Conversions and comparisons run on the current pair.                    *)
(***************************************************************************)
NoOut == [op |-> "none", res |-> None]

\* a field is set at most once, and at most MaxEdits fields are set
CanEdit(site) == site \notin edited /\ Cardinality(edited) < MaxEdits

ConvInit ==
    /\ rk \in Kinds
    /\ \E i \in 1..2 :
          /\ wire = WireBases(rk)[i]
          /\ dom = DomainBases(rk)[i]
    /\ edited = {}
    /\ out = NoOut

\* b.user_name = Some("other-user"): set one top-level field of the wire resource
SetWireField ==
    /\ out = NoOut
    /\ \E f \in WireTopFields(rk) : \E v \in WireVals(rk, f) :
          /\ CanEdit(<<"wire", f>>)
          /\ v # wire[f]
          /\ wire' = [wire EXCEPT ![f] = v]
          /\ edited' = edited \cup {<<"wire", f>>}
    /\ UNCHANGED <<rk, dom, out, queryVars>>

\* io_rt.metadata = None: drop the metadata block
SetWireMetadata ==
    /\ out = NoOut
    /\ CanEdit(<<"wire", "metadata">>)
    /\ \A f \in MetaFields : <<"metadata", f>> \notin edited
    /\ wire' = [wire EXCEPT !.metadata = None]
    /\ edited' = edited \cup {<<"wire", "metadata">>}
    /\ UNCHANGED <<rk, dom, out, queryVars>>

\* b.metadata.as_mut().unwrap().name = None: set one field of the metadata block
SetMetadataField ==
    /\ out = NoOut
    /\ IsSome(wire.metadata)
    /\ \E f \in MetaFields : \E v \in MetaVals(rk, f) :
          /\ CanEdit(<<"metadata", f>>)
          /\ v # wire.metadata[1][f]
          /\ wire' = [wire EXCEPT !.metadata = Some([wire.metadata[1] EXCEPT ![f] = v])]
          /\ edited' = edited \cup {<<"metadata", f>>}
    /\ UNCHANGED <<rk, dom, out, queryVars>>

\* set one field of the domain resource
SetDomainField ==
    /\ out = NoOut
    /\ \E f \in DomainFields(rk) : \E v \in DomainVals(rk, f) :
          /\ CanEdit(<<"domain", f>>)
          /\ v # dom[f]
          /\ dom' = [dom EXCEPT ![f] = v]
          /\ edited' = edited \cup {<<"domain", f>>}
    /\ UNCHANGED <<rk, wire, out, queryVars>>

\* ProjectRoleTemplateBinding::try_from(wire) / RoleTemplate::try_from(wire)
TryFromWire ==
    /\ out = NoOut
    /\ out' = [op |-> "try_from_wire", res |-> WireToDomain(rk, wire)]
    /\ UNCHANGED <<rk, wire, dom, edited, queryVars>>

\* IoCattleManagementv3...::try_from(dom)
TryFromDomain ==
    /\ out = NoOut
    /\ out' = [op |-> "try_from_domain", res |-> DomainToWire(rk, dom)]
    /\ UNCHANGED <<rk, wire, dom, edited, queryVars>>

\* the domain resource just derived from wire is converted back to wire
WireRoundTrip ==
    /\ out.op = "try_from_wire"
    /\ IsOk(out.res)
    /\ out' = [op |-> "wire_round_trip", res |-> DomainToWire(rk, out.res.val)]
    /\ UNCHANGED <<rk, wire, dom, edited, queryVars>>

\* RoleTemplate::try_from(IoCattleManagementv3RoleTemplate::try_from(original).unwrap())
DomainRoundTrip ==
    /\ out.op = "try_from_domain"
    /\ IsOk(out.res)
    /\ out' = [op |-> "domain_round_trip", res |-> WireToDomain(rk, out.res.val)]
    /\ UNCHANGED <<rk, wire, dom, edited, queryVars>>

\* wire == dom
CompareWireDomain ==
    /\ out = NoOut
    /\ out' = [op |-> "eq_wire_domain", res |-> WireEqDomain(rk, wire, dom)]
    /\ UNCHANGED <<rk, wire, dom, edited, queryVars>>

\* dom == wire
CompareDomainWire ==
    /\ out = NoOut
    /\ out' = [op |-> "eq_domain_wire", res |-> DomainEqWire(rk, dom, wire)]
    /\ UNCHANGED <<rk, wire, dom, edited, queryVars>>

(***************************************************************************)
(* The list-query entry points (src/prtb.rs 47-188, src/rt.rs 47-109).     *)
(* The transport and serde_json are outside the repository: the transport  *)
(* answers a request with any of TransportResults, and serde_json::from_str*)
(* is given by its result on each body text of Bodies.                     *)
(***************************************************************************)
\* reqwest's StatusCode::OK
StatusCode_OK == 200

Statuses == {StatusCode_OK, 201, 404}

NotJson == "<html>502 Bad Gateway</html>"
StatusJson == "{\"kind\":\"Status\",\"code\":403}"
EmptyListJson == "{\"items\":[]}"
BindingPageJson ==
    "{\"items\":[{\"metadata\":{\"name\":\"b1\"},\"projectName\":\"p1\",\"roleTemplateName\":\"viewer\"}],\"metadata\":{\"continue\":\"tok\"}}"
RolePageJson ==
    "{\"items\":[{\"metadata\":{\"name\":\"admin-template\"}}],\"metadata\":{\"continue\":\"tok\"}}"

Bodies == {NotJson, StatusJson, EmptyListJson, BindingPageJson, RolePageJson}

\* serde_json::from_str::<serde_json::Value>
from_str_Value(content) ==
    CASE content = StatusJson ->
            Ok([kind |-> "Status", code |-> 403])
      [] content = EmptyListJson ->
            Ok([items |-> <<>>])
      [] content = BindingPageJson ->
            Ok([items |-> <<[metadata |-> [name |-> "b1"], projectName |-> "p1",
                             roleTemplateName |-> "viewer"]>>,
                metadata |-> [continue |-> "tok"]])
      [] content = RolePageJson ->
            Ok([items |-> <<[metadata |-> [name |-> "admin-template"]]>>,
                metadata |-> [continue |-> "tok"]])
      [] OTHER -> Err("expected value at line 1 column 1")

\* serde_json::from_str::<IoCattleManagementv3ProjectRoleTemplateBindingList>
from_str_ProjectRoleTemplateBindingList(content) ==
    CASE content = EmptyListJson ->
            Ok([items |-> <<>>, continue |-> None])
      [] content = BindingPageJson ->
            Ok([items |-> <<[minimal_iocattle_binding EXCEPT
                               !.metadata = Some(sample_metadata("b1")),
                               !.project_name = "p1",
                               !.role_template_name = "viewer"]>>,
                continue |-> Some("tok")])
      [] content = RolePageJson -> Err("missing field projectName")
      [] content = StatusJson -> Err("missing field items")
      [] OTHER -> Err("expected value at line 1 column 1")

\* serde_json::from_str::<IoCattleManagementv3RoleTemplateList>
from_str_RoleTemplateList(content) ==
    CASE content = EmptyListJson ->
            Ok([items |-> <<>>, continue |-> None])
      [] content = RolePageJson ->
            Ok([items |-> <<minimal_iocattle_role_template>>,
                continue |-> Some("tok")])
      [] content = BindingPageJson ->
            Ok([items |-> <<[minimal_iocattle_role_template EXCEPT
                               !.metadata = Some(sample_metadata("b1"))]>>,
                continue |-> Some("tok")])
      [] content = StatusJson -> Err("missing field items")
      [] OTHER -> Err("expected value at line 1 column 1")

\* rancher_client::apis::Error<T>
Error_Serde(e) == [variant |-> "Serde", detail |-> e]
Error_ResponseError(rc) == [variant |-> "ResponseError", response |-> rc]
Error_Reqwest(e) == [variant |-> "Reqwest", detail |-> e]

ResponseContent(status, content, entity) ==
    [status |-> status, content |-> content, entity |-> entity]

UnknownValue(v) == [variant |-> "UnknownValue", value |-> v]

\* what the awaited transport call may produce
TransportResults ==
    {Err(Error_Reqwest("connection refused"))}
    \cup {Ok(ResponseContent(st, b, None)) : st \in Statuses, b \in Bodies}

\* get_project_role_template_bindings, from its match on the transport result
get_project_role_template_bindings(result) ==
    IF IsErr(result) THEN Err(result.err)
    ELSE LET response_content == result.val IN
         IF response_content.status = StatusCode_OK
         THEN LET data == from_str_ProjectRoleTemplateBindingList(response_content.content)
              IN IF IsOk(data) THEN Ok(data.val)
                 ELSE Err(Error_Serde(data.err))
         ELSE LET unknown_data == from_str_Value(response_content.content)
              IN IF IsOk(unknown_data)
                 THEN Err(Error_ResponseError(
                          ResponseContent(response_content.status,
                                          response_content.content,
                                          Some(UnknownValue(unknown_data.val)))))
                 ELSE Err(Error_Serde(unknown_data.err))

\* Mutant: the server error is built without the raw body of the response.
get_namespaced_project_role_template_bindings_drops_content(result) ==
    IF IsErr(result) THEN Err(result.err)
    ELSE LET response_content == result.val IN
         IF response_content.status = StatusCode_OK
         THEN LET data == from_str_ProjectRoleTemplateBindingList(response_content.content)
              IN IF IsOk(data) THEN Ok(data.val)
                 ELSE Err(Error_Serde(data.err))
         ELSE LET unknown_data == from_str_Value(response_content.content)
              IN IF IsOk(unknown_data)
                 THEN Err(Error_ResponseError(
                          ResponseContent(response_content.status,
                                          "",
                                          Some(UnknownValue(unknown_data.val)))))
                 ELSE Err(Error_Serde(unknown_data.err))

\* get_namespaced_project_role_template_bindings, from its match on the transport result
get_namespaced_project_role_template_bindings(result) ==
    IF IsErr(result) THEN Err(result.err)
    ELSE LET response_content == result.val IN
         IF response_content.status = StatusCode_OK
         THEN LET data == from_str_ProjectRoleTemplateBindingList(response_content.content)
              IN IF IsOk(data) THEN Ok(data.val)
                 ELSE Err(Error_Serde(data.err))
         ELSE LET unknown_data == from_str_Value(response_content.content)
              IN IF IsOk(unknown_data)
                 THEN Err(Error_ResponseError(
                          ResponseContent(response_content.status,
                                          response_content.content,
                                          Some(UnknownValue(unknown_data.val)))))
                 ELSE Err(Error_Serde(unknown_data.err))

\* Mutant: every 2xx status takes the list branch (StatusCode::is_success).
get_role_templates_any_2xx(result) ==
    IF IsErr(result) THEN Err(result.err)
    ELSE LET response_content == result.val IN
         IF response_content.status \in 200..299
         THEN LET data == from_str_RoleTemplateList(response_content.content)
              IN IF IsOk(data) THEN Ok(data.val)
                 ELSE Err(Error_Serde(data.err))
         ELSE LET unknown_data == from_str_Value(response_content.content)
              IN IF IsOk(unknown_data)
                 THEN Err(Error_ResponseError(
                          ResponseContent(response_content.status,
                                          response_content.content,
                                          Some(UnknownValue(unknown_data.val)))))
                 ELSE Err(Error_Serde(unknown_data.err))

\* get_role_templates, from its match on the transport result
get_role_templates(result) ==
    IF IsErr(result) THEN Err(result.err)
    ELSE LET response_content == result.val IN
         IF response_content.status = StatusCode_OK
         THEN LET data == from_str_RoleTemplateList(response_content.content)
              IN IF IsOk(data) THEN Ok(data.val)
                 ELSE Err(Error_Serde(data.err))
         ELSE LET unknown_data == from_str_Value(response_content.content)
              IN IF IsOk(unknown_data)
                 THEN Err(Error_ResponseError(
                          ResponseContent(response_content.status,
                                          response_content.content,
                                          Some(UnknownValue(unknown_data.val)))))
                 ELSE Err(Error_Serde(unknown_data.err))

EntryPoints ==
    {"get_project_role_template_bindings",
     "get_namespaced_project_role_template_bindings",
     "get_role_templates"}

\* the resource kind an entry point lists
EntryKind(e) == IF e = "get_role_templates" THEN RT ELSE PRTB

\* the transport function an entry point awaits
TransportFn(e) ==
    CASE e = "get_project_role_template_bindings" ->
            "list_management_cattle_io_v3_project_role_template_binding_for_all_namespaces"
      [] e = "get_namespaced_project_role_template_bindings" ->
            "list_management_cattle_io_v3_namespaced_project_role_template_binding"
      [] e = "get_role_templates" ->
            "list_management_cattle_io_v3_role_template"

Classify(e, result) ==
    CASE e = "get_project_role_template_bindings" ->
            get_project_role_template_bindings(result)
      [] e = "get_namespaced_project_role_template_bindings" ->
            get_namespaced_project_role_template_bindings(result)
      [] e = "get_role_templates" ->
            get_role_templates(result)

CallIds == 1..NumCalls

IdleCall == [pc |-> "idle", entry |-> "none", result |-> None, outcome |-> None]

QueryInit ==
    /\ calls = [c \in CallIds |-> IdleCall]
    /\ network = [c \in CallIds |-> None]
    /\ sent = [c \in CallIds |-> <<>>]
    /\ invoked = 0

\* the continuation token of the page a call returned, if it returned one
NextPage(call) ==
    IF call.pc = "returned" /\ IsOk(call.outcome[1])
    THEN call.outcome[1].val.continue
    ELSE None

\* the caller calls an entry point, passing the continuation token of the
\* page it holds: the request goes out and the call awaits the transport
Invoke(c) ==
    /\ calls[c].pc \in {"idle", "returned"}
    /\ invoked < MaxInvocations
    /\ \E e \in EntryPoints :
          /\ calls' = [calls EXCEPT ![c] =
                          [pc |-> "awaiting", entry |-> e, result |-> None,
                           outcome |-> None]]
          /\ sent' = [sent EXCEPT ![c] =
                          <<[fn |-> TransportFn(e), continue_ |-> NextPage(calls[c])]>>]
    /\ invoked' = invoked + 1
    /\ UNCHANGED <<network, convVars>>

\* the transport completes the awaited request, with a response or an error
TransportCompletes(c) ==
    /\ calls[c].pc = "awaiting"
    /\ network[c] = None
    /\ \E r \in TransportResults : network' = [network EXCEPT ![c] = Some(r)]
    /\ UNCHANGED <<calls, sent, invoked, convVars>>

\* Mutant: a transport error is retried, the request being issued again.
Resume_retries(c) ==
    /\ calls[c].pc = "awaiting"
    /\ IsSome(network[c])
    /\ LET result == network[c][1] IN
          IF IsErr(result)
          THEN /\ sent' = [sent EXCEPT ![c] = Append(sent[c], sent[c][1])]
               /\ UNCHANGED calls
          ELSE /\ calls' = [calls EXCEPT ![c] =
                               [pc |-> "returned", entry |-> calls[c].entry,
                                result |-> Some(result),
                                outcome |-> Some(Classify(calls[c].entry, result))]]
               /\ UNCHANGED sent
    /\ network' = [network EXCEPT ![c] = None]
    /\ UNCHANGED <<invoked, convVars>>

\* Mutant: the response is taken from a buffer all the calls share.
Resume_shared(c) ==
    /\ calls[c].pc = "awaiting"
    /\ \E d \in CallIds :
          /\ IsSome(network[d])
          /\ LET result == network[d][1] IN
                calls' = [calls EXCEPT ![c] =
                             [pc |-> "returned", entry |-> calls[c].entry,
                              result |-> Some(result),
                              outcome |-> Some(Classify(calls[c].entry, result))]]
          /\ network' = [network EXCEPT ![d] = None]
    /\ UNCHANGED <<sent, invoked, convVars>>

\* the call resumes from the await, classifies the result and returns
Resume(c) ==
    /\ calls[c].pc = "awaiting"
    /\ IsSome(network[c])
    /\ LET result == network[c][1] IN
          calls' = [calls EXCEPT ![c] =
                       [pc |-> "returned", entry |-> calls[c].entry,
                        result |-> Some(result),
                        outcome |-> Some(Classify(calls[c].entry, result))]]
    /\ network' = [network EXCEPT ![c] = None]
    /\ UNCHANGED <<sent, invoked, convVars>>

(***************************************************************************)
(* The specifications: Spec runs conversions and comparisons on one        *)
(* wire/domain pair; QuerySpec runs list-query calls.                      *)
(***************************************************************************)
Init == ConvInit /\ QueryInit

Next ==
    \/ SetWireField
    \/ SetWireMetadata
    \/ SetMetadataField
    \/ SetDomainField
    \/ TryFromWire
    \/ TryFromDomain
    \/ WireRoundTrip
    \/ DomainRoundTrip
    \/ CompareWireDomain
    \/ CompareDomainWire

Spec == Init /\ [][Next]_vars

QueryOnlyInit ==
    /\ rk = PRTB
    /\ wire = sample_iocattle_binding
    /\ dom = sample_binding
    /\ edited = {}
    /\ out = NoOut
    /\ QueryInit

QueryNext ==
    \E c \in CallIds :
        \/ Invoke(c)
        \/ TransportCompletes(c)
        \/ Resume(c)

QuerySpec == QueryOnlyInit /\ [][QueryNext]_vars

\* The transport ends every request it was given, with a response or with an
\* error, and the executor resumes a call whose await is ready.
FairQuerySpec ==
    /\ QuerySpec
    /\ \A c \in CallIds :
          WF_vars(TransportCompletes(c)) /\ WF_vars(Resume(c))

(***************************************************************************)
(* The properties checked.                                                 *)
(***************************************************************************)
NameOf(w) == IF IsSome(w.metadata) THEN w.metadata[1].name ELSE None
EqOps == {"eq_wire_domain", "eq_domain_wire"}

\* the metadata fields with no slot in the domain resource of kind k
UntrackedMeta(k) ==
    {"creation_timestamp", "finalizers", "generate_name", "generation",
     "managed_fields", "self_link"}
    \cup (IF k = RT THEN {"namespace", "resource_version", "uid"} ELSE {})

\* w1 and w2 agree on every field that has a slot in the domain resource
SameTracked(k, w1, w2) ==
    /\ \A f \in KindFields(k) : w1[f] = w2[f]
    /\ IsSome(w1.metadata) = IsSome(w2.metadata)
    /\ IsSome(w1.metadata) =>
          \A f \in MetaFields \ UntrackedMeta(k) :
              w1.metadata[1][f] = w2.metadata[1][f]

\* w with every field that has no slot in the domain resource unset
WithoutUntracked(k, w) ==
    [w EXCEPT !.api_version = None, !.kind = None,
              !.metadata = IF IsSome(@)
                           THEN Some([f \in MetaFields |->
                                        IF f \in UntrackedMeta(k) THEN None
                                        ELSE @[1][f]])
                           ELSE None]

\* C1: a RoleTemplate converted to its wire form and back converts
\* successfully and is equal to the RoleTemplate it started from, in every field.
C1_RoleTemplateRoundTrip ==
    (rk = RT /\ out.op = "domain_round_trip") => out.res = Ok(dom)

C1_Witness ==
    /\ rk = RT
    /\ out.op = "domain_round_trip"
    /\ IsOk(out.res)
    /\ dom.labels = Some(TwoEntries)
    /\ dom.description = None

\* C2: a ProjectRoleTemplateBinding converted to its wire form and back
\* converts successfully and is equal to the binding it started from, in
\* every field, resource_version and uid included.
C2_BindingRoundTrip ==
    (rk = PRTB /\ out.op = "domain_round_trip") => out.res = Ok(dom)

\* C3: the wire-to-domain conversion fails when the metadata block or its
\* name is absent, and succeeds for every other wire resource.
C3_RequiredFields ==
    out.op = "try_from_wire" =>
        (IsErr(out.res) <=> (~IsSome(wire.metadata) \/ ~IsSome(wire.metadata[1].name)))

C3_Witness ==
    /\ out.op = "try_from_wire"
    /\ IsOk(out.res)
    /\ wire.api_version = None
    /\ wire.metadata[1].labels = None
    /\ Cardinality(edited) = MaxEdits

\* C4: wire == domain and domain == wire return the same boolean on every pair.
C4_EqualitySymmetric ==
    /\ out.op = "eq_domain_wire" => out.res = WireEqDomain(rk, wire, dom)
    /\ out.op = "eq_wire_domain" => out.res = DomainEqWire(rk, dom, wire)

C4_Witness ==
    /\ out.op = "eq_domain_wire"
    /\ out.res = FALSE
    /\ NameOf(wire) # Some(dom.id)
    /\ \A f \in KindFields(rk) : wire[f] = dom[f]

\* the list type an entry point decodes a 200 body as
DecodeList(e, content) ==
    IF EntryKind(e) = RT THEN from_str_RoleTemplateList(content)
    ELSE from_str_ProjectRoleTemplateBindingList(content)

IsStatusOK(st) == st = StatusCode_OK
Is2xx(st) == st \in 200..299

\* the outcome table of a returned call, for a given reading of "success status"
OutcomeTable(Success(_), call) ==
    LET r == call.result[1]
        o == call.outcome[1]
    IN IF IsErr(r) THEN o = r
       ELSE LET st == r.val.status
                body == r.val.content
                list == DecodeList(call.entry, body)
                json == from_str_Value(body)
            IN /\ (Success(st) /\ IsOk(list)) => o = Ok(list.val)
               /\ (Success(st) /\ IsErr(list)) =>
                     (IsErr(o) /\ o.err.variant = "Serde")
               /\ (~Success(st) /\ IsOk(json)) =>
                     /\ IsErr(o)
                     /\ o.err.variant = "ResponseError"
                     /\ o.err.response.status = st
                     /\ o.err.response.entity = Some(UnknownValue(json.val))
               /\ (~Success(st) /\ IsErr(json)) =>
                     (IsErr(o) /\ o.err.variant = "Serde")

\* C5 as stated: the outcome of a list query follows the table, a success
\* status being any 2xx status: transport failure unchanged; success status
\* and decodable list -> the list; success status and undecodable body ->
\* decode error; other status and decodable payload -> server error with
\* that status and payload; other status and undecodable body -> decode error.
C5_ClassifierOnSuccessStatus ==
    \A c \in CallIds :
        calls[c].pc = "returned" => OutcomeTable(Is2xx, calls[c])

\* C5 as amended: the same table, the list branch being taken for status
\* 200 OK only and every other status, 2xx or not, taking the error branch.
C5_ClassifierOnStatusOK ==
    \A c \in CallIds :
        calls[c].pc = "returned" => OutcomeTable(IsStatusOK, calls[c])

C5_Witness ==
    \E c \in CallIds :
        /\ calls[c].pc = "returned"
        /\ calls[c].result = Some(Ok(ResponseContent(201, EmptyListJson, None)))
        /\ IsErr(calls[c].outcome[1])
        /\ calls[c].outcome[1].err.variant = "ResponseError"

\* C6: a wire resource without a metadata block or without a name is
\* unequal to every domain resource, in both directions.
C6_AbsentNameNeverEqual ==
    (out.op \in EqOps /\ ~IsSome(NameOf(wire))) => out.res = FALSE

C6_Witness ==
    /\ out.op = "eq_domain_wire"
    /\ IsSome(wire.metadata)
    /\ ~IsSome(wire.metadata[1].name)
    /\ \A f \in KindFields(rk) : wire[f] = dom[f]
    /\ out.res = FALSE

\* C7: a pair compares equal, in either direction, only if the wire name is
\* the domain id and every kind-specific field has the same value on both
\* sides; so a change of the identity or of one such field makes it unequal.
C7_EqualOnlyIfFieldsAgree ==
    (out.op \in EqOps /\ out.res = TRUE) =>
        /\ NameOf(wire) = Some(dom.id)
        /\ \A f \in KindFields(rk) : wire[f] = dom[f]

C7_Witness ==
    /\ out.op = "eq_wire_domain"
    /\ out.res = FALSE
    /\ NameOf(wire) = Some(dom.id)
    /\ Cardinality({f \in KindFields(rk) : wire[f] # dom[f]}) = 1

\* C8: the comparison of a wire resource with a domain resource gives the
\* result it gives for the same wire resource with every field that has no
\* slot in the domain model unset; so wire resources that differ in such
\* fields only compare alike with any domain resource.
C8_UntrackedFieldsIgnored ==
    out.op \in EqOps =>
        /\ out.res = WireEqDomain(rk, WithoutUntracked(rk, wire), dom)
        /\ out.res = DomainEqWire(rk, dom, WithoutUntracked(rk, wire))

C8_Witness ==
    /\ out.op = "eq_wire_domain"
    /\ out.res = TRUE
    /\ wire.kind # Some(rk)
    /\ IsSome(wire.metadata[1].creation_timestamp)

\* C9: a wire resource converted to its domain form and back has the same
\* value in every field that has a domain slot.
C9_WireRoundTripPreserves ==
    out.op = "wire_round_trip" =>
        (IsOk(out.res) /\ SameTracked(rk, wire, out.res.val))

\* C10 as stated: the conversion from wire succeeds exactly when the
\* metadata block is present and carries a non-empty name.
C10_DerivableIffNonEmptyName ==
    out.op = "try_from_wire" =>
        (IsOk(out.res) <=> (IsSome(NameOf(wire)) /\ NameOf(wire) # Some("")))

\* C10 as amended: the conversion from wire succeeds exactly when the
\* metadata block is present and carries a name, empty or not, and the
\* name becomes the id.
C10_DerivableIffNamePresent ==
    out.op = "try_from_wire" =>
        /\ IsOk(out.res) <=> IsSome(NameOf(wire))
        /\ IsOk(out.res) => Some(out.res.val.id) = NameOf(wire)

C10_Witness ==
    /\ out.op = "try_from_wire"
    /\ NameOf(wire) = Some("")
    /\ IsOk(out.res)
    /\ out.res.val.id = ""

\* the metadata fields the domain-to-wire conversion of kind k writes
WrittenMeta(k) ==
    {"name", "labels", "annotations"} \cup (IF k = PRTB THEN {"namespace"} ELSE {})

\* C11: the domain-to-wire conversion always succeeds, with the apiVersion
\* and kind constants, metadata.name = id, labels and annotations copied,
\* every kind-specific field copied, the binding's namespace written, and
\* every other metadata field unset.
C11_DomainToWireShape ==
    out.op = "try_from_domain" =>
        /\ IsOk(out.res)
        /\ out.res.val.api_version = Some("management.cattle.io/v3")
        /\ out.res.val.kind = Some(rk)
        /\ IsSome(out.res.val.metadata)
        /\ LET m == out.res.val.metadata[1] IN
              /\ m.name = Some(dom.id)
              /\ m.labels = dom.labels
              /\ m.annotations = dom.annotations
              /\ rk = PRTB => m.namespace = Some(dom.namespace)
              /\ \A f \in MetaFields \ WrittenMeta(rk) : m[f] = None
        /\ \A f \in KindFields(rk) : out.res.val[f] = dom[f]

C11_Witness ==
    /\ rk = PRTB
    /\ out.op = "try_from_domain"
    /\ IsOk(out.res)
    /\ dom.namespace = ""
    /\ dom.labels = Some(TwoEntries)
    /\ IsSome(dom.uid)
    /\ out.res.val.metadata[1].uid = None

\* C12: a binding wire resource with a name converts to a domain resource
\* with id = name, the kind-specific fields, labels and annotations of the
\* wire resource, and its namespace or "" when it has none; converted back,
\* name, projectName and roleTemplateName are the same and kind and
\* apiVersion are the constants.
C12_BindingScenario ==
    /\ (rk = PRTB /\ out.op = "try_from_wire" /\ IsSome(NameOf(wire))) =>
          /\ IsOk(out.res)
          /\ out.res.val.id = wire.metadata[1].name[1]
          /\ \A f \in PRTB_KindFields : out.res.val[f] = wire[f]
          /\ out.res.val.labels = wire.metadata[1].labels
          /\ out.res.val.annotations = wire.metadata[1].annotations
          /\ out.res.val.namespace =
                (IF IsSome(wire.metadata[1].namespace)
                 THEN wire.metadata[1].namespace[1] ELSE "")
    /\ (rk = PRTB /\ out.op = "wire_round_trip") =>
          /\ IsOk(out.res)
          /\ NameOf(out.res.val) = NameOf(wire)
          /\ out.res.val.project_name = wire.project_name
          /\ out.res.val.role_template_name = wire.role_template_name
          /\ out.res.val.kind = Some("ProjectRoleTemplateBinding")
          /\ out.res.val.api_version = Some("management.cattle.io/v3")

C12_Witness ==
    /\ rk = PRTB
    /\ out.op = "wire_round_trip"
    /\ IsOk(out.res)
    /\ wire.api_version = None
    /\ wire.metadata[1].namespace = None
    /\ wire.metadata[1].labels = Some(TwoEntries)
    /\ out.res.val.api_version = Some(API_VERSION)

\* C13: a failed conversion from wire names the absent field: the metadata
\* block when it is absent, whatever else is set, and otherwise the name;
\* the result is the error alone.
C13_MissingFieldNamed ==
    out.op = "try_from_wire" =>
        /\ ~IsSome(wire.metadata) => out.res = Err("missing metadata")
        /\ (IsSome(wire.metadata) /\ ~IsSome(wire.metadata[1].name)) =>
              out.res = Err(IF rk = PRTB THEN "missing name"
                            ELSE "missing metadata.name")

C13_Witness ==
    /\ rk = RT
    /\ out.op = "try_from_wire"
    /\ IsSome(wire.metadata)
    /\ ~IsSome(wire.metadata[1].name)
    /\ out.res = Err("missing metadata.name")

\* C14: every invocation of a list-query entry point issues exactly one
\* transport request and then returns one outcome: no request is added while
\* the call awaits or after it returned, whatever the outcome (transport
\* error, server error, decode error, or a list with a continuation token);
\* a further request is issued only by a new call.
C14_OneRequestPerInvocation ==
    /\ [](\A c \in CallIds :
             /\ calls[c].pc = "idle" => sent[c] = <<>>
             /\ calls[c].pc \in {"awaiting", "returned"} => Len(sent[c]) = 1
             /\ calls[c].pc = "returned" <=> IsSome(calls[c].outcome))
    /\ [][\A c \in CallIds :
             /\ calls[c].pc = "awaiting" => sent'[c] = sent[c]
             /\ (calls[c].pc = "returned" /\ calls'[c].pc # "awaiting") =>
                   (sent'[c] = sent[c] /\ calls'[c] = calls[c])
             /\ (calls[c].pc # "awaiting" /\ calls'[c].pc = "awaiting") =>
                   sent'[c] = <<[fn |-> TransportFn(calls'[c].entry),
                                 continue_ |-> NextPage(calls[c])]>>]_vars
    /\ \A c \in CallIds :
          (calls[c].pc = "awaiting") ~> (calls[c].pc = "returned")

C14_Witness ==
    \E c \in CallIds :
        /\ calls[c].pc = "returned"
        /\ IsOk(calls[c].outcome[1])
        /\ calls[c].outcome[1].val.continue = Some("tok")
        /\ Len(sent[c]) = 1
        /\ sent[c][1].continue_ = None

\* C15: with several calls in flight, a call returns the classification of
\* the transport result of its own request, and a step of one call leaves
\* the state of every other call as it was.
C15_CallsIndependent ==
    [][\A c \in CallIds :
          /\ (calls[c].pc = "awaiting" /\ calls'[c].pc = "returned") =>
                /\ IsSome(network[c])
                /\ calls'[c].result = network[c]
                /\ calls'[c].outcome =
                      Some(Classify(calls[c].entry, network[c][1]))
          /\ (calls'[c] # calls[c] \/ network'[c] # network[c]
                 \/ sent'[c] # sent[c]) =>
                \A d \in CallIds \ {c} :
                    /\ calls'[d] = calls[d]
                    /\ network'[d] = network[d]
                    /\ sent'[d] = sent[d]]_vars

C15_Witness ==
    \E c, d \in CallIds :
        /\ c # d
        /\ calls[c].pc = "returned"
        /\ calls[c].entry = "get_role_templates"
        /\ IsOk(calls[c].outcome[1])
        /\ calls[d].pc = "awaiting"
        /\ calls[d].entry # "get_role_templates"
        /\ network[d] = Some(Err(Error_Reqwest("connection refused")))

\* C16: a wire resource and a domain resource that agree on identity and on
\* every kind-specific field compare equal in both directions, whatever
\* their labels, annotations, namespace, resource version and uid hold.
C16_EqualityIgnoresCarriedMetadata ==
    (/\ out.op \in EqOps
     /\ NameOf(wire) = Some(dom.id)
     /\ \A f \in KindFields(rk) : wire[f] = dom[f]) => out.res = TRUE

C16_Witness ==
    /\ rk = PRTB
    /\ out.op = "eq_domain_wire"
    /\ out.res = TRUE
    /\ wire.metadata[1].labels # dom.labels
    /\ wire.metadata[1].namespace # Some(dom.namespace)
    /\ wire.metadata[1].uid # dom.uid

\* C17: a returned call holds a decoded list only if the response status is
\* exactly 200; for every other status, 201 included, the outcome is the
\* server error holding the status, the raw body as received and the decoded
\* JSON value when the body is valid JSON (a valid list body included), and
\* a decode error otherwise.
C17_ListOnlyOnExactly200 ==
    \A c \in CallIds :
        (calls[c].pc = "returned" /\ IsOk(calls[c].result[1])) =>
            LET r == calls[c].result[1].val
                o == calls[c].outcome[1]
                json == from_str_Value(r.content)
            IN /\ IsOk(o) => r.status = 200
               /\ r.status # 200 =>
                     o = (IF IsOk(json)
                          THEN Err([variant |-> "ResponseError",
                                    response |->
                                        [status |-> r.status,
                                         content |-> r.content,
                                         entity |-> Some(UnknownValue(json.val))]])
                          ELSE Err([variant |-> "Serde", detail |-> json.err]))

C17_Witness ==
    \E c \in CallIds :
        /\ calls[c].pc = "returned"
        /\ calls[c].entry = "get_namespaced_project_role_template_bindings"
        /\ calls[c].result = Some(Ok(ResponseContent(201, BindingPageJson, None)))
        /\ IsOk(DecodeList(calls[c].entry, BindingPageJson))
        /\ IsErr(calls[c].outcome[1])
        /\ calls[c].outcome[1].err.variant = "ResponseError"
        /\ calls[c].outcome[1].err.response.content = BindingPageJson

\* C18: the wire resource the domain-to-wire conversion produces compares
\* equal to the domain resource it was made from, in both directions; and a
\* wire resource whose wire-to-domain conversion succeeds compares equal to
\* the domain resource produced, in both directions.
C18_ConversionAgreesWithEquality ==
    /\ out.op = "try_from_domain" =>
          /\ IsOk(out.res)
          /\ WireEqDomain(rk, out.res.val, dom)
          /\ DomainEqWire(rk, dom, out.res.val)
    /\ (out.op = "try_from_wire" /\ IsOk(out.res)) =>
          /\ WireEqDomain(rk, wire, out.res.val)
          /\ DomainEqWire(rk, out.res.val, wire)

C18_Witness ==
    /\ rk = RT
    /\ out.op = "try_from_domain"
    /\ IsOk(out.res)
    /\ IsSome(dom.hidden)
    /\ IsSome(dom.labels)
    /\ DomainEqWire(rk, dom, out.res.val)

====
